---- MODULE Spec2Model ----
(***************************************************************************)
(* KLV data formats (arrows/klv/klv_data_format.h, .cxx): the generic      *)
(* read / write / length_of wrapper of klv_data_format_<T> and the         *)
(* concrete formats' typed hooks, over a byte buffer with a read and a     *)
(* write iterator.                                                         *)
(*                                                                         *)
(* 64-bit integers are sequences of 8 bytes, most significant first, so    *)
(* that no value is cut to the model checker's integer width.              *)
(***************************************************************************)
EXTENDS Integers, Sequences, FiniteSets, TLC

\* ------------------------------------------------------------------ bounds

\* Length of the byte buffer whose contents are arbitrary (malformed input).
BufLen == 2
\* Largest fixed length a configurable format is constructed with.
MaxFixed == 2
\* Spare bytes of the buffer a caller allocates for the value it encodes,
\* beyond the length the format computes for the value.
Slack == 0
\* Largest length of a klv_lengthy< double > value, and largest fixed length
\* of its formats.
MaxLengthy == 8
\* Number of track states, and largest frame number of a track state.
NumStates == 3
MaxFrame == 2

\* The byte values the arbitrary buffer draws from: 00, 7F (largest short
\* form), 80 (sign bit / BER N = 0 / BER-OID continuation), 81 (BER long
\* form header, N = 1), FF (BER N = 127).
Byte == {0, 127, 128, 129, 255}

\* ----------------------------------------------------------------- helpers

Min(S) == CHOOSE x \in S : \A y \in S : x <= y

Rep(b, n) == [i \in 1..n |-> b]

\* The n bytes that follow offset pos (pos counts bytes before the cursor).
Slice(data, pos, n) == [i \in 1..n |-> data[pos + i]]

\* data with bytes written at offset pos.
Store(data, pos, bytes) ==
  [i \in 1..Len(data) |->
     IF i > pos /\ i <= pos + Len(bytes) THEN bytes[i - pos] ELSE data[i]]

\* A number below 2^24 as a 64-bit value (8 bytes, big-endian).
U64(n) ==
  <<0, 0, 0, 0, 0, (n \div 65536) % 256, (n \div 256) % 256, n % 256>>

Zero64 == <<0, 0, 0, 0, 0, 0, 0, 0>>

\* ------------------------------------------------- klv_value (three states)

Empty == [tag |-> "Empty", v |-> <<>>, hint |-> 0]
Unparsed(blob, length) == [tag |-> "Unparsed", v |-> blob, hint |-> length]
Typed(value, length) == [tag |-> "Typed", v |-> value, hint |-> length]

\* --------------------------------------------- primitive codecs (spec 4.2)

Fail(kind, pos) == [ok |-> FALSE, err |-> kind, value |-> <<>>, pos |-> pos]
Ok(value, pos) == [ok |-> TRUE, err |-> "none", value |-> value, pos |-> pos]

\* Blob: exactly the announced length, opaque.
klv_read_blob(data, pos, length) == Ok(Slice(data, pos, length), pos + length)

\* Blob write: verbatim; Overflow if the blob is longer than max_length.
klv_write_blob(value, max_length) ==
  IF Len(value) > max_length
    THEN [ok |-> FALSE, err |-> "Overflow", bytes |-> <<>>]
    ELSE [ok |-> TRUE, err |-> "none", bytes |-> value]

klv_blob_length(value) == Len(value)

\* UUID: exactly 16 bytes, opaque.
klv_uuid_length == 16

klv_read_uuid(data, pos, max_length) ==
  IF max_length < klv_uuid_length THEN Fail("Truncated", pos)
  ELSE Ok(Slice(data, pos, klv_uuid_length), pos + klv_uuid_length)

klv_write_uuid(value, max_length) ==
  IF max_length < klv_uuid_length
    THEN [ok |-> FALSE, err |-> "Overflow", bytes |-> <<>>]
    ELSE [ok |-> TRUE, err |-> "none", bytes |-> value]

\* Bytes needed for an unsigned value: 8 minus its leading zero bytes, min 1.
klv_int_length_u(v) ==
  LET nz == {i \in 1..8 : v[i] # 0}
  IN  IF nz = {} THEN 1 ELSE 9 - Min(nz)

\* Bytes needed for a two's complement value: a leading 00 is dropped while
\* the next byte's top bit is clear, a leading FF while it is set.
klv_int_length_s(v) ==
  LET redundant(i) == /\ i < 8
                      /\ \/ v[i] = 0 /\ v[i + 1] < 128
                         \/ v[i] = 255 /\ v[i + 1] >= 128
  IN  9 - Min({i \in 1..8 : ~redundant(i)})

klv_int_length(v, signed) ==
  IF signed THEN klv_int_length_s(v) ELSE klv_int_length_u(v)

\* Big-endian integer read: lengths over 8 are rejected before any byte is
\* consumed; a signed value is sign-extended.
klv_read_int(data, pos, length, signed) ==
  IF length > 8 THEN Fail("Overflow", pos)
  ELSE LET bytes == Slice(data, pos, length)
           pad == IF signed /\ length > 0 /\ bytes[1] >= 128 THEN 255 ELSE 0
       IN  Ok(Rep(pad, 8 - length) \o bytes, pos + length)

\* Big-endian integer write into exactly `length` bytes, padded with
\* sign-extension bytes; a value that needs more bytes is not written.
klv_write_int(v, length, signed) ==
  IF klv_int_length(v, signed) > length
    THEN [ok |-> FALSE, err |-> "Overflow", bytes |-> <<>>]
  ELSE IF length <= 8
    THEN [ok |-> TRUE, err |-> "none", bytes |-> Slice(v, 8 - length, length)]
  ELSE LET pad == IF signed /\ v[1] >= 128 THEN 255 ELSE 0
       IN  [ok |-> TRUE, err |-> "none", bytes |-> Rep(pad, length - 8) \o v]

\* BER length: short form below 128, else a header and the value's bytes.
klv_ber_length(v) ==
  IF klv_int_length_u(v) = 1 /\ v[8] < 128 THEN 1 ELSE 1 + klv_int_length_u(v)

klv_write_ber(v, max_length) ==
  LET n == klv_ber_length(v)
  IN  IF n > max_length
        THEN [ok |-> FALSE, err |-> "Overflow", bytes |-> <<>>]
      ELSE IF n = 1
        THEN [ok |-> TRUE, err |-> "none", bytes |-> <<v[8]>>]
      ELSE [ok |-> TRUE, err |-> "none",
            bytes |-> <<128 + (n - 1)>> \o Slice(v, 8 - (n - 1), n - 1)]

\* BER decode: the first byte is consumed; with its top bit clear it is the
\* value, else its low 7 bits give N (0 is rejected) and N bytes follow.
klv_read_ber(data, pos, max_length) ==
  IF max_length = 0 THEN Fail("Truncated", pos)
  ELSE LET first == data[pos + 1]
           N == first - 128
       IN  IF first < 128 THEN Ok(U64(first), pos + 1)
           ELSE IF N = 0 THEN Fail("WrongLength", pos + 1)
           ELSE IF N + 1 > max_length THEN Fail("Truncated", pos + 1)
           ELSE IF N > 8 THEN Fail("OverflowInDecode", pos + 1)
           ELSE Ok(Rep(0, 8 - N) \o Slice(data, pos + 1, N), pos + 1 + N)

\* v shifted right by 7 bits.
ShiftR7(v) ==
  LET b(i) == (v[i] \div 128) + (IF i > 1 THEN (v[i - 1] % 128) * 2 ELSE 0)
  IN  <<b(1), b(2), b(3), b(4), b(5), b(6), b(7), b(8)>>

\* v shifted left by 7 bits with the 7-bit group g in the low bits.
ShiftIn7(v, g) ==
  LET b(i) == (v[i] % 2) * 128 + (IF i < 8 THEN v[i + 1] \div 2 ELSE g)
  IN  <<b(1), b(2), b(3), b(4), b(5), b(6), b(7), b(8)>>

\* Number of significant bits of a byte.
ByteBits(b) == CHOOSE k \in 0..8 : 2^k > b /\ (k = 0 \/ 2^(k - 1) <= b)

\* Number of significant bits of a 64-bit value.
BitsNeeded(v) ==
  IF v = Zero64 THEN 0
  ELSE LET n == klv_int_length_u(v) IN 8 * (n - 1) + ByteBits(v[9 - n])

\* BER-OID length: ceil(bits_needed / 7), min 1.
klv_ber_oid_length(v) ==
  IF BitsNeeded(v) = 0 THEN 1 ELSE (BitsNeeded(v) + 6) \div 7

\* BER-OID bytes: 7 bits per byte, most significant group first, top bit set
\* on every byte but the last.
RECURSIVE ber_oid_bytes(_, _)
ber_oid_bytes(v, last) ==
  LET b == (v[8] % 128) + (IF last THEN 0 ELSE 128)
  IN  IF ShiftR7(v) = Zero64 THEN <<b>>
      ELSE ber_oid_bytes(ShiftR7(v), FALSE) \o <<b>>

klv_write_ber_oid(v, max_length) ==
  IF klv_ber_oid_length(v) > max_length
    THEN [ok |-> FALSE, err |-> "Overflow", bytes |-> <<>>]
    ELSE [ok |-> TRUE, err |-> "none", bytes |-> ber_oid_bytes(v, TRUE)]

\* BER-OID decode: accumulate 7 bits per byte until a byte with the top bit
\* clear is consumed; i bytes have been consumed so far.
RECURSIVE ber_oid_loop(_, _, _, _, _)
ber_oid_loop(data, pos, max_length, i, acc) ==
  IF i = max_length THEN Fail("Truncated", pos + i)
  ELSE IF acc[1] >= 2 THEN Fail("OverflowInDecode", pos + i)
  ELSE LET b == data[pos + i + 1]
           next == ShiftIn7(acc, b % 128)
       IN  IF b < 128 THEN Ok(next, pos + i + 1)
           ELSE ber_oid_loop(data, pos, max_length, i + 1, next)

klv_read_ber_oid(data, pos, max_length) ==
  ber_oid_loop(data, pos, max_length, 0, Zero64)

\* ------------------------------------------------------------ the formats

\* VARIABLES
\*   kind            the concrete format class of the format object
\*   m_fixed_length  its fixed length (0: variable length)
\*   buf             the byte buffer
\*   rd, wr          the read and the write iterator (bytes before each)
\*   value           the klv_value the caller holds
\*   call            the last call: its arguments, the state before it and
\*                   what it did
VARIABLES kind, m_fixed_length, buf, rd, wr, value, call

\* vital/types/track.cxx: tracks and track states.
\*   history_  each track's history: a sequence of track states
\*   track_    each track state's back-pointer to its track
\*   frame     each track state's frame number
VARIABLES history_, track_, frame

trackVars == <<history_, track_, frame>>

vars == <<kind, m_fixed_length, buf, rd, wr, value, call, trackVars>>

\* Formats constructed with a configurable fixed length, and those that are
\* always of variable length.
Configurable == {"blob", "uint", "sint"}
Kinds == Configurable \cup {"ber", "ber_oid", "uuid"}

\* --- typed hooks of the concrete formats

klv_blob_format_read_typed(data, pos, length) ==
  klv_read_blob(data, pos, length)

klv_blob_format_write_typed(v, length) == klv_write_blob(v, length)

klv_blob_format_length_of_typed(v) == klv_blob_length(v)

klv_uuid_format_read_typed(data, pos, length) ==
  klv_read_uuid(data, pos, length)

klv_uuid_format_write_typed(v, length) == klv_write_uuid(v, length)

klv_uuid_format_length_of_typed(v) == klv_uuid_length

klv_uint_format_read_typed(data, pos, length) ==
  klv_read_int(data, pos, length, FALSE)

klv_uint_format_write_typed(v, length) == klv_write_int(v, length, FALSE)

klv_uint_format_length_of_typed(v) == klv_int_length(v, FALSE)

\* The signed format's reader with the bug of reading an unsigned integer.
klv_sint_format_read_typed_Unsigned(data, pos, length) ==
  klv_read_int(data, pos, length, FALSE)

klv_sint_format_read_typed(data, pos, length) ==
  klv_read_int(data, pos, length, TRUE)

klv_sint_format_write_typed(v, length) == klv_write_int(v, length, TRUE)

\* The signed format's length with the bug of the unsigned byte count.
klv_sint_format_length_of_typed_Unsigned(v) == klv_int_length(v, FALSE)

klv_sint_format_length_of_typed(v) == klv_int_length(v, TRUE)

klv_ber_format_read_typed(data, pos, length) ==
  klv_read_ber(data, pos, length)

\* The BER writer with the bug of a plain integer written, no header byte.
klv_ber_format_write_typed_NoHeader(v, length) ==
  klv_write_int(v, length, FALSE)

klv_ber_format_write_typed(v, length) == klv_write_ber(v, length)

\* The BER length with the bug of the header byte not counted.
klv_ber_format_length_of_typed_NoHeader(v) == klv_int_length(v, FALSE)

klv_ber_format_length_of_typed(v) == klv_ber_length(v)

klv_ber_oid_format_read_typed(data, pos, length) ==
  klv_read_ber_oid(data, pos, length)

\* The BER-OID writer with the bug of the BER length codec used.
klv_ber_oid_format_write_typed_Ber(v, length) == klv_write_ber(v, length)

klv_ber_oid_format_write_typed(v, length) == klv_write_ber_oid(v, length)

klv_ber_oid_format_length_of_typed(v) == klv_ber_oid_length(v)

\* --- formats of klv_lengthy< double >: a number and the length it has on
\* the wire (0: not known)

Lengthy(v, length) == [value |-> v, length |-> length]

\* <cfloat>, IEEE-754 binary32 and binary64.
FLT_DIG == 6
DBL_DIG == 15

\* ceil( bits * log10( 2.0 ) ), log10( 2 ) = 0.30103 to the precision that
\* decides the result for every bit count below 200.
bits_to_decimal_digits(bits) == (bits * 30103 + 99999) \div 100000

\* What print leaves in the stream: whether print_typed ran, the precision
\* it set for the number, and what was printed.
Output(typed, digits, v) == [typed |-> typed, precision |-> digits, value |-> v]

klv_float_format_length_of_typed(v) == v.length

\* The float printer with the bug of double precision whatever the length.
klv_float_format_print_typed_DoubleOnly(fixed, v) ==
  Output(TRUE, DBL_DIG + 1, v.value)

klv_float_format_print_typed(fixed, v) ==
  LET length == IF fixed # 0 THEN fixed ELSE v.length
      digits == IF length = 4 THEN FLT_DIG + 1 ELSE DBL_DIG + 1
  IN  Output(TRUE, digits, v.value)

klv_sflint_format_length_of_typed(v) == v.length

klv_sflint_format_print_typed(fixed, v) ==
  LET length == IF fixed # 0 THEN fixed ELSE v.length
      digits == IF length # 0 THEN bits_to_decimal_digits(length * 8)
                ELSE DBL_DIG + 1
  IN  Output(TRUE, digits, v.value)

klv_uflint_format_length_of_typed(v) == v.length

\* The UFLINT printer with the bug of the fixed length never looked at.
klv_uflint_format_print_typed_NoFixed(fixed, v) ==
  LET length == v.length
      digits == IF length # 0 THEN bits_to_decimal_digits(length * 8)
                ELSE DBL_DIG + 1
  IN  Output(TRUE, digits, v.value)

klv_uflint_format_print_typed(fixed, v) ==
  LET length == IF fixed # 0 THEN fixed ELSE v.length
      digits == IF length # 0 THEN bits_to_decimal_digits(length * 8)
                ELSE DBL_DIG + 1
  IN  Output(TRUE, digits, v.value)

klv_imap_format_length_of_typed(v) == v.length

\* The IMAP printer with the bug of the bit reserved for the special values
\* counted as precision.
klv_imap_format_print_typed_AllBits(fixed, v) ==
  LET length == IF fixed # 0 THEN fixed ELSE v.length
      digits == IF length # 0 THEN bits_to_decimal_digits(length * 8)
                ELSE DBL_DIG + 1
  IN  Output(TRUE, digits, v.value)

klv_imap_format_print_typed(fixed, v) ==
  LET length == IF fixed # 0 THEN fixed ELSE v.length
      digits == IF length # 0 THEN bits_to_decimal_digits(length * 8 - 1)
                ELSE DBL_DIG + 1
  IN  Output(TRUE, digits, v.value)

LengthyKinds == {"float", "sflint", "uflint", "imap"}

\* --- virtual dispatch of the typed hooks

read_typed(k, data, pos, length) ==
  CASE k = "blob" -> klv_blob_format_read_typed(data, pos, length)
    [] k = "uint" -> klv_uint_format_read_typed(data, pos, length)
    [] k = "sint" -> klv_sint_format_read_typed(data, pos, length)
    [] k = "ber" -> klv_ber_format_read_typed(data, pos, length)
    [] k = "ber_oid" -> klv_ber_oid_format_read_typed(data, pos, length)
    [] k = "uuid" -> klv_uuid_format_read_typed(data, pos, length)

write_typed(k, v, length) ==
  CASE k = "blob" -> klv_blob_format_write_typed(v, length)
    [] k = "uint" -> klv_uint_format_write_typed(v, length)
    [] k = "sint" -> klv_sint_format_write_typed(v, length)
    [] k = "ber" -> klv_ber_format_write_typed(v, length)
    [] k = "ber_oid" -> klv_ber_oid_format_write_typed(v, length)
    [] k = "uuid" -> klv_uuid_format_write_typed(v, length)

length_of_typed(k, v, length_hint) ==
  CASE k = "blob" -> klv_blob_format_length_of_typed(v)
    [] k = "uint" -> klv_uint_format_length_of_typed(v)
    [] k = "sint" -> klv_sint_format_length_of_typed(v)
    [] k = "ber" -> klv_ber_format_length_of_typed(v)
    [] k = "ber_oid" -> klv_ber_oid_format_length_of_typed(v)
    [] k = "uuid" -> klv_uuid_format_length_of_typed(v)
    [] k = "float" -> klv_float_format_length_of_typed(v)
    [] k = "sflint" -> klv_sflint_format_length_of_typed(v)
    [] k = "uflint" -> klv_uflint_format_length_of_typed(v)
    [] k = "imap" -> klv_imap_format_length_of_typed(v)

print_typed(k, fixed, v) ==
  CASE k = "float" -> klv_float_format_print_typed(fixed, v)
    [] k = "sflint" -> klv_sflint_format_print_typed(fixed, v)
    [] k = "uflint" -> klv_uflint_format_print_typed(fixed, v)
    [] k = "imap" -> klv_imap_format_print_typed(fixed, v)

\* ----------------------------------------- klv_data_format_<T>: the wrapper

\* length_of with the bug of the length hint taken before the fixed length.
length_of_HintFirst(k, fixed, val) ==
  IF val.tag = "Empty" THEN 0
  ELSE IF val.tag = "Unparsed" THEN Len(val.v)
  ELSE IF val.hint # 0 THEN val.hint
  ELSE IF fixed # 0 THEN fixed
  ELSE length_of_typed(k, val.v, val.hint)

\* length_of: bytes required to write val.
length_of(k, fixed, val) ==
  IF val.tag = "Empty" THEN 0
  ELSE IF val.tag = "Unparsed" THEN Len(val.v)
  ELSE IF fixed # 0 THEN fixed
  ELSE length_of_typed(k, val.v, val.hint)

\* print( os, value ): a value that is not valid (empty or unparsed) is
\* printed as it is, a typed one by print_typed.
print(k, fixed, val) ==
  IF val.tag # "Typed" THEN Output(FALSE, 0, val.v)
  ELSE print_typed(k, fixed, val.v)

\* What a call to read leaves: the value returned (none on an error), the
\* iterator, the error thrown to the caller, whether read_typed was invoked,
\* whether it returned, and where it left the iterator.
ReadResult(ret, pos, err, typed, typed_ok, typed_end) ==
  [ret |-> ret, pos |-> pos, err |-> err, typed |-> typed,
   typed_ok |-> typed_ok, typed_end |-> typed_end]

\* read with the bug of no fixed-length test.
read_NoFixedCheck(k, fixed, data, pos, length) ==
  IF length = 0
    THEN ReadResult(Empty, pos, "none", FALSE, FALSE, pos)
  ELSE LET t == read_typed(k, data, pos, length)
       IN  IF t.ok
             THEN ReadResult(Typed(t.value, length), t.pos, "none",
                             TRUE, TRUE, t.pos)
             ELSE LET b == klv_read_blob(data, t.pos, length)
                  IN  ReadResult(Unparsed(b.value, length), b.pos, "none",
                                 TRUE, FALSE, t.pos)

\* read with the bug of the fixed-length test made before the zero-length
\* test.
read_FixedCheckFirst(k, fixed, data, pos, length) ==
  IF fixed # 0 /\ length # fixed
    THEN ReadResult(Empty, pos, "WrongLength", FALSE, FALSE, pos)
  ELSE IF length = 0
    THEN ReadResult(Empty, pos, "none", FALSE, FALSE, pos)
  ELSE LET t == read_typed(k, data, pos, length)
       IN  IF t.ok
             THEN ReadResult(Typed(t.value, length), t.pos, "none",
                             TRUE, TRUE, t.pos)
             ELSE LET b == klv_read_blob(data, t.pos, length)
                  IN  ReadResult(Unparsed(b.value, length), b.pos, "none",
                                 TRUE, FALSE, t.pos)

\* read with the bug of no handler around the typed reader: its error
\* reaches the caller.
read_NoCatch(k, fixed, data, pos, length) ==
  IF length = 0
    THEN ReadResult(Empty, pos, "none", FALSE, FALSE, pos)
  ELSE IF fixed # 0 /\ length # fixed
    THEN ReadResult(Empty, pos, "WrongLength", FALSE, FALSE, pos)
  ELSE LET t == read_typed(k, data, pos, length)
       IN  IF t.ok
             THEN ReadResult(Typed(t.value, length), t.pos, "none",
                             TRUE, TRUE, t.pos)
             ELSE ReadResult(Empty, t.pos, t.err, TRUE, FALSE, t.pos)

\* read( data, length ). `data` is the memory the iterator ranges over.
read(k, fixed, data, pos, length) ==
  IF length = 0
    THEN ReadResult(Empty, pos, "none", FALSE, FALSE, pos)
  ELSE IF fixed # 0 /\ length # fixed
    THEN ReadResult(Empty, pos, "WrongLength", FALSE, FALSE, pos)
  ELSE LET t == read_typed(k, data, pos, length)
       IN  IF t.ok
             THEN ReadResult(Typed(t.value, length), t.pos, "none",
                             TRUE, TRUE, t.pos)
             ELSE LET b == klv_read_blob(data, t.pos, length)
                  IN  ReadResult(Unparsed(b.value, length), b.pos, "none",
                                 TRUE, FALSE, t.pos)

\* One past the last byte offset a call to read touches.
ReadExtent(k, fixed, data, pos, length) ==
  IF length = 0 \/ (fixed # 0 /\ length # fixed) THEN pos
  ELSE LET t == read_typed(k, data, pos, length)
       IN  IF t.ok THEN t.pos ELSE t.pos + length

\* What a call to write leaves: the buffer, the iterator, the error thrown,
\* whether write_typed was invoked and whether it returned.
WriteResult(data, pos, err, typed, typed_ok) ==
  [data |-> data, pos |-> pos, err |-> err, typed |-> typed,
   typed_ok |-> typed_ok]

\* write( value, data, max_length ), with the bug of a caller's Empty value
\* taken for a blob: value.get< klv_blob >() fails on it.
write_NoEmptyCheck(k, fixed, val, data, pos, max_length) ==
  IF val.tag = "Empty"
    THEN WriteResult(data, pos, "TypeMismatch", FALSE, FALSE)
  ELSE IF val.tag = "Unparsed"
    THEN LET w == klv_write_blob(val.v, max_length)
         IN  IF w.ok
               THEN WriteResult(Store(data, pos, w.bytes),
                                pos + Len(w.bytes), "none", FALSE, FALSE)
               ELSE WriteResult(data, pos, w.err, FALSE, FALSE)
  ELSE LET value_length == length_of(k, fixed, val)
       IN  IF value_length > max_length
             THEN WriteResult(data, pos, "Overflow", FALSE, FALSE)
           ELSE LET w == write_typed(k, val.v, value_length)
                    written_length == Len(w.bytes)
                IN  IF ~w.ok THEN WriteResult(data, pos, w.err, TRUE, FALSE)
                    ELSE IF written_length # value_length
                      THEN WriteResult(Store(data, pos, w.bytes),
                                       pos + written_length,
                                       "LengthMismatch", TRUE, TRUE)
                    ELSE WriteResult(Store(data, pos, w.bytes),
                                     pos + written_length, "none", TRUE, TRUE)

\* write with the bug of an unparsed blob written whatever max_length is.
write_BlobNoLimit(k, fixed, val, data, pos, max_length) ==
  IF val.tag = "Empty"
    THEN WriteResult(data, pos, "none", FALSE, FALSE)
  ELSE IF val.tag = "Unparsed"
    THEN LET w == klv_write_blob(val.v, Len(val.v))
         IN  WriteResult(Store(data, pos, w.bytes), pos + Len(w.bytes),
                         "none", FALSE, FALSE)
  ELSE LET value_length == length_of(k, fixed, val)
       IN  IF value_length > max_length
             THEN WriteResult(data, pos, "Overflow", FALSE, FALSE)
           ELSE LET w == write_typed(k, val.v, value_length)
                    written_length == Len(w.bytes)
                IN  IF ~w.ok THEN WriteResult(data, pos, w.err, TRUE, FALSE)
                    ELSE IF written_length # value_length
                      THEN WriteResult(Store(data, pos, w.bytes),
                                       pos + written_length,
                                       "LengthMismatch", TRUE, TRUE)
                    ELSE WriteResult(Store(data, pos, w.bytes),
                                     pos + written_length, "none", TRUE, TRUE)

\* write with the bug of an off-by-one overflow test (>= for >).
write_OverflowOffByOne(k, fixed, val, data, pos, max_length) ==
  IF val.tag = "Empty"
    THEN WriteResult(data, pos, "none", FALSE, FALSE)
  ELSE IF val.tag = "Unparsed"
    THEN LET w == klv_write_blob(val.v, max_length)
         IN  IF w.ok
               THEN WriteResult(Store(data, pos, w.bytes),
                                pos + Len(w.bytes), "none", FALSE, FALSE)
               ELSE WriteResult(data, pos, w.err, FALSE, FALSE)
  ELSE LET value_length == length_of(k, fixed, val)
       IN  IF value_length >= max_length
             THEN WriteResult(data, pos, "Overflow", FALSE, FALSE)
           ELSE LET w == write_typed(k, val.v, value_length)
                    written_length == Len(w.bytes)
                IN  IF ~w.ok THEN WriteResult(data, pos, w.err, TRUE, FALSE)
                    ELSE IF written_length # value_length
                      THEN WriteResult(Store(data, pos, w.bytes),
                                       pos + written_length,
                                       "LengthMismatch", TRUE, TRUE)
                    ELSE WriteResult(Store(data, pos, w.bytes),
                                     pos + written_length, "none", TRUE, TRUE)

\* write with the bug of the written length never compared with the
\* calculated one.
write_NoLengthCheck(k, fixed, val, data, pos, max_length) ==
  IF val.tag = "Empty"
    THEN WriteResult(data, pos, "none", FALSE, FALSE)
  ELSE IF val.tag = "Unparsed"
    THEN LET w == klv_write_blob(val.v, max_length)
         IN  IF w.ok
               THEN WriteResult(Store(data, pos, w.bytes),
                                pos + Len(w.bytes), "none", FALSE, FALSE)
               ELSE WriteResult(data, pos, w.err, FALSE, FALSE)
  ELSE LET value_length == length_of(k, fixed, val)
       IN  IF value_length > max_length
             THEN WriteResult(data, pos, "Overflow", FALSE, FALSE)
           ELSE LET w == write_typed(k, val.v, value_length)
                    written_length == Len(w.bytes)
                IN  IF ~w.ok THEN WriteResult(data, pos, w.err, TRUE, FALSE)
                    ELSE WriteResult(Store(data, pos, w.bytes),
                                     pos + written_length, "none", TRUE, TRUE)

\* write( value, data, max_length )
write(k, fixed, val, data, pos, max_length) ==
  IF val.tag = "Empty"
    THEN WriteResult(data, pos, "none", FALSE, FALSE)
  ELSE IF val.tag = "Unparsed"
    THEN LET w == klv_write_blob(val.v, max_length)
         IN  IF w.ok
               THEN WriteResult(Store(data, pos, w.bytes),
                                pos + Len(w.bytes), "none", FALSE, FALSE)
               ELSE WriteResult(data, pos, w.err, FALSE, FALSE)
  ELSE LET value_length == length_of(k, fixed, val)
       IN  IF value_length > max_length
             THEN WriteResult(data, pos, "Overflow", FALSE, FALSE)
           ELSE LET w == write_typed(k, val.v, value_length)
                    written_length == Len(w.bytes)
                IN  IF ~w.ok THEN WriteResult(data, pos, w.err, TRUE, FALSE)
                    ELSE IF written_length # value_length
                      THEN WriteResult(Store(data, pos, w.bytes),
                                       pos + written_length,
                                       "LengthMismatch", TRUE, TRUE)
                    ELSE WriteResult(Store(data, pos, w.bytes),
                                     pos + written_length, "none", TRUE, TRUE)

\* ------------------------------------------------------------- the callers

\* 64-bit values a caller encodes: the boundaries of each encoding.
IntValues ==
  {U64(0), U64(1), U64(127), U64(128), U64(255), U64(256), U64(16383),
   U64(16384), U64(65535), U64(65536),
   <<0, 0, 0, 1, 0, 0, 0, 0>>,
   <<2, 0, 0, 0, 0, 0, 0, 0>>,
   <<127, 255, 255, 255, 255, 255, 255, 255>>,
   <<128, 0, 0, 0, 0, 0, 0, 0>>,
   <<255, 255, 255, 255, 255, 255, 255, 127>>,
   <<255, 255, 255, 255, 255, 255, 255, 128>>,
   <<255, 255, 255, 255, 255, 255, 255, 255>>}

Blobs == {<<>>, <<128>>, <<130, 1>>, <<0, 255, 127>>}

Uuids == {Rep(0, klv_uuid_length), Rep(255, klv_uuid_length)}

\* The values a caller holds to write under a format of kind k.
Candidates(k) ==
  {Empty}
  \cup {Unparsed(b, Len(b)) : b \in Blobs \ {<<>>}}
  \cup CASE k = "blob" -> {Typed(b, 0) : b \in Blobs}
         [] k = "uuid" -> {Typed(u, 0) : u \in Uuids}
         [] OTHER -> {Typed(v, 0) : v \in IntValues}

\* The fixed length each format class passes to the base constructor.
FixedLengths(k) ==
  IF k \in Configurable THEN 0..MaxFixed
  ELSE IF k = "uuid" THEN {klv_uuid_length}
  ELSE {0}

\* No track and no track state exists.
NoTracks == history_ = <<>> /\ track_ = <<>> /\ frame = <<>>

NoCall ==
  [op |-> "none", begin |-> 0, length |-> 0, arg |-> Empty, pre |-> <<>>,
   ret |-> Empty, err |-> "none", typed |-> FALSE, typed_ok |-> FALSE,
   typed_end |-> 0]

\* A format object is constructed; the caller either holds a buffer full of
\* received bytes to decode, or a value to encode and a zeroed buffer
\* allocated for it.
Init ==
  /\ kind \in Kinds
  /\ m_fixed_length \in FixedLengths(kind)
  /\ \/ /\ buf \in [1..BufLen -> Byte]
        /\ wr = BufLen
        /\ value = Empty
     \/ /\ value \in Candidates(kind)
        /\ buf = Rep(0, length_of(kind, m_fixed_length, value) + Slack)
        /\ wr = 0
  /\ rd = 0
  /\ call = NoCall
  /\ NoTracks

\* The caller reads a field of `length` received bytes at the read iterator.
\* Bytes the call touches past the end of the buffer are whatever the memory
\* there holds: some byte value g stands for them.
Read(length) ==
  /\ rd + length <= wr
  /\ LET extent == ReadExtent(kind, m_fixed_length, buf, rd, length)
         over == IF extent > Len(buf) THEN extent - Len(buf) ELSE 0
     IN  \E g \in (IF over > 0 THEN Byte ELSE {0}) :
           LET r == read(kind, m_fixed_length, buf \o Rep(g, over), rd,
                         length)
           IN  /\ rd' = r.pos
               /\ value' = IF r.err = "none" THEN r.ret ELSE value
               /\ call' = [op |-> "read", begin |-> rd, length |-> length,
                           arg |-> Empty, pre |-> buf, ret |-> r.ret,
                           err |-> r.err, typed |-> r.typed,
                           typed_ok |-> r.typed_ok,
                           typed_end |-> r.typed_end]
  /\ UNCHANGED <<kind, m_fixed_length, buf, wr, trackVars>>

\* The caller writes the value it holds at the write iterator, into at most
\* max_length of the bytes that remain.
Write(max_length) ==
  /\ wr + max_length <= Len(buf)
  /\ LET w == write(kind, m_fixed_length, value, buf, wr, max_length)
     IN  /\ buf' = w.data
         /\ wr' = w.pos
         /\ call' = [op |-> "write", begin |-> wr, length |-> max_length,
                     arg |-> value, pre |-> buf, ret |-> Empty,
                     err |-> w.err, typed |-> w.typed,
                     typed_ok |-> w.typed_ok, typed_end |-> w.pos]
  /\ UNCHANGED <<kind, m_fixed_length, rd, value, trackVars>>

\* set_fixed_length( fixed_length ): the member of the base class assigns
\* the format's fixed length, whatever the concrete format.
SetFixedLength(fixed_length) ==
  /\ fixed_length # m_fixed_length
  /\ m_fixed_length' = fixed_length
  /\ call' = [NoCall EXCEPT !.op = "set_fixed_length",
                            !.length = fixed_length]
  /\ UNCHANGED <<kind, buf, rd, wr, value, trackVars>>

Next ==
  \/ \E length \in 0..Len(buf) : Read(length)
  \/ \E max_length \in 0..Len(buf) : Write(max_length)
  \/ \E fixed_length \in 0..MaxFixed : SetFixedLength(fixed_length)

Spec == Init /\ [][Next]_vars

\* --- callers of the formats of klv_lengthy< double >

\* Numbers a caller holds (what is printed of them is their digits).
Doubles == {"1.0", "-0.5"}

\* A value as read hands it out (the length it was read with, also as the
\* hint), one with no length known, no value, and bytes that did not parse.
LengthyCandidates ==
  {Typed(Lengthy(d, n), n) : d \in Doubles, n \in 0..MaxLengthy}
  \cup {Empty, Unparsed(<<128>>, 1)}

InitLengthy ==
  /\ kind \in LengthyKinds
  /\ m_fixed_length \in 0..MaxLengthy
  /\ value \in LengthyCandidates
  /\ buf = <<>>
  /\ rd = 0
  /\ wr = 0
  /\ call = NoCall
  /\ NoTracks

\* The caller prints the value it holds.
PrintValue ==
  /\ call' = [NoCall EXCEPT !.op = "print", !.arg = value,
                            !.ret = print(kind, m_fixed_length, value)]
  /\ UNCHANGED <<kind, m_fixed_length, buf, rd, wr, value, trackVars>>

\* The caller asks for the length of the value it holds.
LengthOf ==
  /\ call' = [NoCall EXCEPT !.op = "length_of", !.arg = value,
                            !.length = length_of(kind, m_fixed_length, value)]
  /\ UNCHANGED <<kind, m_fixed_length, buf, rd, wr, value, trackVars>>

NextLengthy ==
  \/ PrintValue
  \/ LengthOf
  \/ \E fixed_length \in 0..MaxLengthy : SetFixedLength(fixed_length)

SpecLengthy == InitLengthy /\ [][NextLengthy]_vars

\* ------------------------------------------- vital/types/track.cxx: track

Tracks == {"t1", "t2"}

\* The track states: 1..NumStates, and 0 for a null pointer. A back-pointer
\* that is null or expired is "none".
States == 1..NumStates

\* compare_state_frame: ts lies before `f`.
compare_state_frame(fr, ts, f) == ts # 0 /\ fr[ts] < f

\* std::lower_bound over a history, from index `first`, `count` entries: the
\* index of the first entry that does not lie before f (binary search).
RECURSIVE lower_bound(_, _, _, _, _)
lower_bound(fr, h, first, count, f) ==
  IF count = 0 THEN first
  ELSE LET step == count \div 2
           it == first + step
       IN  IF compare_state_frame(fr, h[it], f)
             THEN lower_bound(fr, h, it + 1, count - step - 1, f)
             ELSE lower_bound(fr, h, first, step, f)

first_frame(fr, h) == IF h = <<>> THEN 0 ELSE fr[h[1]]

last_frame(fr, h) == IF h = <<>> THEN 0 ELSE fr[h[Len(h)]]

\* h with entry x put before index pos, and h without the entry at pos.
Emplace(h, pos, x) == SubSeq(h, 1, pos - 1) \o <<x>> \o SubSeq(h, pos, Len(h))
Erase(h, pos) == SubSeq(h, 1, pos - 1) \o SubSeq(h, pos + 1, Len(h))

\* What a member of track leaves: the histories, the back-pointers, the
\* value returned and the exception thrown.
TrackResult(h, tr, ret, err) == [h |-> h, tr |-> tr, ret |-> ret, err |-> err]

\* append( state ) with the bug of no test of the state's parent.
append_state_NoParentCheck(h, tr, fr, self, state) ==
  IF state = 0 \/ (h[self] # <<>> /\ last_frame(fr, h[self]) >= fr[state])
    THEN TrackResult(h, tr, FALSE, "none")
  ELSE TrackResult([h EXCEPT ![self] = Append(@, state)],
                   [tr EXCEPT ![state] = self], TRUE, "none")

\* track::append( track_state_sptr&& state )
append_state(h, tr, fr, self, state) ==
  IF state # 0 /\ tr[state] # "none"
    THEN TrackResult(h, tr, FALSE, "logic_error")
  ELSE IF state = 0
          \/ (h[self] # <<>> /\ last_frame(fr, h[self]) >= fr[state])
    THEN TrackResult(h, tr, FALSE, "none")
  ELSE TrackResult([h EXCEPT ![self] = Append(@, state)],
                   [tr EXCEPT ![state] = self], TRUE, "none")

\* append( to_append ) with the bug of the other track's history kept.
append_track_NoClear(h, tr, fr, self, to_append) ==
  IF /\ h[self] # <<>>
     /\ h[to_append] # <<>>
     /\ last_frame(fr, h[self]) >= first_frame(fr, h[to_append])
    THEN TrackResult(h, tr, FALSE, "none")
  ELSE LET moved == {h[to_append][i] : i \in 1..Len(h[to_append])}
       IN  TrackResult(
             [h EXCEPT ![self] = @ \o h[to_append]],
             [s \in DOMAIN tr |-> IF s \in moved THEN self ELSE tr[s]],
             TRUE, "none")

\* track::append( track& to_append )
append_track(h, tr, fr, self, to_append) ==
  IF /\ h[self] # <<>>
     /\ h[to_append] # <<>>
     /\ last_frame(fr, h[self]) >= first_frame(fr, h[to_append])
    THEN TrackResult(h, tr, FALSE, "none")
  ELSE LET moved == {h[to_append][i] : i \in 1..Len(h[to_append])}
       IN  TrackResult(
             [[h EXCEPT ![self] = @ \o h[to_append]]
                EXCEPT ![to_append] = <<>>],
             [s \in DOMAIN tr |-> IF s \in moved THEN self ELSE tr[s]],
             TRUE, "none")

\* insert( state ) with the bug of the state put at the end of the history.
insert_AtEnd(h, tr, fr, self, state) ==
  IF state = 0 THEN TrackResult(h, tr, FALSE, "none")
  ELSE IF tr[state] # "none" THEN TrackResult(h, tr, FALSE, "logic_error")
  ELSE LET pos == lower_bound(fr, h[self], 1, Len(h[self]), fr[state])
       IN  IF pos # Len(h[self]) + 1 /\ fr[h[self][pos]] = fr[state]
             THEN TrackResult(h, tr, FALSE, "none")
             ELSE TrackResult([h EXCEPT ![self] = Append(@, state)],
                              [tr EXCEPT ![state] = self], TRUE, "none")

\* track::insert( track_state_sptr&& state )
insert(h, tr, fr, self, state) ==
  IF state = 0 THEN TrackResult(h, tr, FALSE, "none")
  ELSE IF tr[state] # "none" THEN TrackResult(h, tr, FALSE, "logic_error")
  ELSE LET pos == lower_bound(fr, h[self], 1, Len(h[self]), fr[state])
       IN  IF pos # Len(h[self]) + 1 /\ fr[h[self][pos]] = fr[state]
             THEN TrackResult(h, tr, FALSE, "none")
             ELSE TrackResult([h EXCEPT ![self] = Emplace(@, pos, state)],
                              [tr EXCEPT ![state] = self], TRUE, "none")

\* remove( state ) with the bug of the entry removed only when it is the
\* state passed.
remove_ByIdentity(h, tr, fr, self, state) ==
  IF state = 0 THEN TrackResult(h, tr, FALSE, "none")
  ELSE LET pos == lower_bound(fr, h[self], 1, Len(h[self]), fr[state])
       IN  IF pos = Len(h[self]) + 1 \/ h[self][pos] # state
             THEN TrackResult(h, tr, FALSE, "none")
             ELSE TrackResult([h EXCEPT ![self] = Erase(@, pos)],
                              [tr EXCEPT ![h[self][pos]] = "none"],
                              TRUE, "none")

\* track::remove( track_state_sptr const& state )
remove(h, tr, fr, self, state) ==
  IF state = 0 THEN TrackResult(h, tr, FALSE, "none")
  ELSE LET pos == lower_bound(fr, h[self], 1, Len(h[self]), fr[state])
       IN  IF pos = Len(h[self]) + 1 \/ fr[h[self][pos]] # fr[state]
             THEN TrackResult(h, tr, FALSE, "none")
             ELSE TrackResult([h EXCEPT ![self] = Erase(@, pos)],
                              [tr EXCEPT ![h[self][pos]] = "none"],
                              TRUE, "none")

\* track::clear()
clear(h, tr, self) ==
  LET gone == {h[self][i] : i \in 1..Len(h[self])}
  IN  TrackResult([h EXCEPT ![self] = <<>>],
                  [s \in DOMAIN tr |-> IF s \in gone THEN "none" ELSE tr[s]],
                  TRUE, "none")

\* --- callers of track

\* Two tracks are created empty; the track states exist with no parent, any
\* frame numbers (the states are numbered in frame order).
InitTrack ==
  /\ history_ = [t \in Tracks |-> <<>>]
  /\ track_ = [s \in States |-> "none"]
  /\ frame \in {f \in [States -> 0..MaxFrame] :
                  \A s \in States : s > 1 => f[s - 1] <= f[s]}
  /\ kind = "none"
  /\ m_fixed_length = 0
  /\ buf = <<>>
  /\ rd = 0
  /\ wr = 0
  /\ value = Empty
  /\ call = [op |-> "none"]

\* A call of a member of track `self` took place and left r.
TrackCall(op, self, state, other, r) ==
  /\ history_' = r.h
  /\ track_' = r.tr
  /\ call' = [op |-> op, self |-> self, state |-> state, other |-> other,
              ret |-> r.ret, err |-> r.err, pre_history |-> history_,
              pre_track |-> track_]
  /\ UNCHANGED <<frame, kind, m_fixed_length, buf, rd, wr, value>>

AppendState(self, state) ==
  TrackCall("append", self, state, self,
            append_state(history_, track_, frame, self, state))

AppendTrack(self, to_append) ==
  TrackCall("append_track", self, 0, to_append,
            append_track(history_, track_, frame, self, to_append))

Insert(self, state) ==
  TrackCall("insert", self, state, self,
            insert(history_, track_, frame, self, state))

Remove(self, state) ==
  TrackCall("remove", self, state, self,
            remove(history_, track_, frame, self, state))

Clear(self) ==
  TrackCall("clear", self, 0, self, clear(history_, track_, self))

NextTrack ==
  \/ \E self \in Tracks, state \in States \cup {0} : AppendState(self, state)
  \/ \E self \in Tracks, to_append \in Tracks : AppendTrack(self, to_append)
  \/ \E self \in Tracks, state \in States \cup {0} : Insert(self, state)
  \/ \E self \in Tracks, state \in States \cup {0} : Remove(self, state)
  \/ \E self \in Tracks : Clear(self)

SpecTrack == InitTrack /\ [][NextTrack]_vars

\* ------------------------------------------------------------- the claims

\* The field of the last call: the bytes it was given.
Field == Slice(call.pre, call.begin, call.length)

ReadFailedTyped == call.op = "read" /\ call.typed /\ ~call.typed_ok

\* C1: when the typed reader fails inside read(cursor, length), the value
\* returned is Unparsed(blob, length) with blob the `length` bytes at the
\* pre-call position, and the cursor ends at pre-call position + length,
\* however far the typed reader had advanced before failing.
C1_FallbackFromPreCallPosition ==
  ReadFailedTyped =>
    /\ call.err = "none"
    /\ call.ret = Unparsed(Field, call.length)
    /\ rd = call.begin + call.length

\* C2: every read with length > 0 that returns a Typed value returns it with
\* length hint = length and leaves the cursor at pre-call position + length.
C2_TypedReadAdvancesByLength ==
  (call.op = "read" /\ call.err = "none" /\ call.ret.tag = "Typed") =>
    /\ call.ret.hint = call.length
    /\ rd = call.begin + call.length

\* C3: a write of a Typed value that returns has advanced the cursor by
\* exactly length_of(value); a typed writer that returns having advanced by
\* another amount makes write fail with LengthMismatch.
C3_WriteLengthConsistency ==
  (call.op = "write" /\ call.arg.tag = "Typed") =>
    LET need == length_of(kind, m_fixed_length, call.arg)
    IN  /\ call.err = "none" => wr - call.begin = need
        /\ (call.typed_ok /\ wr - call.begin # need) =>
             call.err = "LengthMismatch"
        /\ call.err = "LengthMismatch" =>
             (call.typed_ok /\ wr - call.begin # need)

C3_Witness ==
  /\ call.op = "write"
  /\ call.arg.tag = "Typed"
  /\ call.err = "LengthMismatch"
  /\ wr - call.begin # length_of(kind, m_fixed_length, call.arg)

C5_UnparsedRoundTrip ==
  ReadFailedTyped =>
    LET w == write(kind, m_fixed_length, call.ret, Rep(0, call.length), 0,
                   call.length)
    IN  /\ call.ret.tag = "Unparsed"
        /\ w.err = "none"
        /\ w.pos = call.length
        /\ w.data = Field

IntKinds == {"uint", "sint", "ber", "ber_oid"}

\* C6: for the integer formats, reading the bytes a successful write of
\* Typed(v) emitted, with length = length_of(Typed(v)), returns Typed(v)
\* with the same integer value.
C6_IntegerRoundTrip ==
  (/\ call.op = "write"
   /\ call.arg.tag = "Typed"
   /\ kind \in IntKinds
   /\ call.err = "none") =>
    LET n == length_of(kind, m_fixed_length, call.arg)
        r == read(kind, m_fixed_length, buf, call.begin, n)
    IN  /\ r.err = "none"
        /\ r.ret.tag = "Typed"
        /\ r.ret.v = call.arg.v

\* A negative value written by the signed format, and a value that takes the
\* longest encoding of its format.
C6_Witness ==
  /\ call.op = "write"
  /\ call.arg.tag = "Typed"
  /\ call.err = "none"
  /\ \/ kind = "sint" /\ call.arg.v[1] = 255 /\ wr - call.begin = 2
     \/ kind = "ber_oid" /\ wr - call.begin = 10
     \/ kind = "ber" /\ wr - call.begin = 9

WrongLengthCall ==
  /\ call.op = "read"
  /\ m_fixed_length # 0
  /\ call.length # 0
  /\ call.length # m_fixed_length

\* C7: read on a fixed-length format with a nonzero length other than the
\* fixed length fails with WrongLength: the error reaches the caller (no
\* Unparsed value is returned), the typed reader is not invoked and the
\* cursor stays at its pre-call position.
C7_WrongLengthPropagates ==
  WrongLengthCall =>
    /\ call.err = "WrongLength"
    /\ call.ret.tag # "Unparsed"
    /\ ~call.typed
    /\ rd = call.begin

C7_Witness == WrongLengthCall /\ call.err = "WrongLength" /\ call.begin > 0

\* C8: read(cursor, 0) returns Empty, raises no error and leaves the cursor
\* unchanged, for fixed-length formats too.
C8_ZeroLengthRead ==
  (call.op = "read" /\ call.length = 0) =>
    /\ call.ret = Empty
    /\ call.err = "none"
    /\ ~call.typed
    /\ rd = call.begin

C8_Witness ==
  /\ call.op = "read"
  /\ call.length = 0
  /\ m_fixed_length # 0
  /\ call.ret = Empty
  /\ call.begin > 0

\* C9: write(Empty, cursor, max_length) writes nothing, leaves cursor and
\* buffer unchanged and raises no error, whatever max_length is.
C9_WriteEmpty ==
  (call.op = "write" /\ call.arg = Empty) =>
    /\ call.err = "none"
    /\ ~call.typed
    /\ wr = call.begin
    /\ buf = call.pre

C9_Witness ==
  /\ call.op = "write"
  /\ call.arg = Empty
  /\ call.length = 0
  /\ call.err = "none"

\* C10: a write of Unparsed(blob) emits the blob verbatim and advances the
\* cursor by its length when that is at most max_length, and fails with
\* Overflow otherwise; the typed writer is not invoked.
C10_WriteUnparsed ==
  (call.op = "write" /\ call.arg.tag = "Unparsed") =>
    /\ ~call.typed
    /\ IF Len(call.arg.v) <= call.length
         THEN /\ call.err = "none"
              /\ wr = call.begin + Len(call.arg.v)
              /\ buf = Store(call.pre, call.begin, call.arg.v)
         ELSE call.err = "Overflow"

C10_Witness ==
  /\ call.op = "write"
  /\ call.arg.tag = "Unparsed"
  /\ kind \in IntKinds
  /\ Len(call.arg.v) = 2
  /\ call.err = "none"
  /\ Slice(buf, call.begin, 2) = call.arg.v

\* C11: read never lets an error of the typed reader reach the caller: a
\* call with length > 0 that passes the fixed-length test raises nothing,
\* and when the typed reader failed it returns Unparsed(blob, length) with a
\* blob of `length` bytes.
C11_TypedErrorsCaught ==
  (/\ call.op = "read"
   /\ call.length > 0
   /\ (m_fixed_length = 0 \/ call.length = m_fixed_length)) =>
    /\ call.typed
    /\ call.err = "none"
    /\ ~call.typed_ok =>
         /\ call.ret.tag = "Unparsed"
         /\ call.ret.hint = call.length
         /\ Len(call.ret.v) = call.length

C11_Witness ==
  /\ ReadFailedTyped
  /\ call.length = 2
  /\ call.ret.tag = "Unparsed"
  /\ value = call.ret

\* C12: under a format with fixed_length # 0, every successful write of a
\* non-Empty value (Typed or Unparsed) advances the cursor by exactly
\* fixed_length.
C12_FixedLengthFields ==
  (/\ call.op = "write"
   /\ m_fixed_length # 0
   /\ call.arg # Empty
   /\ call.err = "none") =>
    wr - call.begin = m_fixed_length

\* C13: under a format with fixed_length # 0, length_of of a Typed value is
\* fixed_length, whatever the value and whatever its length hint; a write of
\* it needs fixed_length bytes.
C13_FixedLengthOfTyped ==
  /\ (value.tag = "Typed" /\ m_fixed_length # 0) =>
       length_of(kind, m_fixed_length, value) = m_fixed_length
  /\ (call.op = "write" /\ call.arg.tag = "Typed" /\ m_fixed_length # 0) =>
       /\ call.length < m_fixed_length => call.err = "Overflow"
       /\ call.err = "none" => wr - call.begin = m_fixed_length

\* A Typed value whose hint is neither zero nor the fixed length and whose
\* per-type length is not the fixed length either.
C13_Witness ==
  /\ value.tag = "Typed"
  /\ m_fixed_length # 0
  /\ value.hint \notin {0, m_fixed_length}
  /\ length_of_typed(kind, value.v, value.hint) # m_fixed_length
  /\ length_of(kind, m_fixed_length, value) = m_fixed_length

\* C14: length_of(v) = 0 if and only if v is Empty: no Unparsed or Typed
\* value has length 0.
C14_ZeroLengthIffEmpty ==
  call.op = "write" =>
    ((length_of(kind, m_fixed_length, call.arg) = 0) <=> (call.arg = Empty))

\* C15: a format object is immutable after construction: no operation
\* changes its fixed_length.
C15_FormatImmutable == [][m_fixed_length' = m_fixed_length]_vars

\* The bytes the last call emitted.
Written == Slice(buf, call.begin, wr - call.begin)

\* The last call is a write of a Typed value under format k that returned.
WroteTyped(k) ==
  /\ call.op = "write"
  /\ kind = k
  /\ call.arg.tag = "Typed"
  /\ call.err = "none"

\* v is below 128.
Below128(v) == (\A i \in 1..7 : v[i] = 0) /\ v[8] < 128

\* C16: the BER format emits a value 0..127 as the single byte equal to the
\* value, and a value >= 128 as a header byte 0x80 | N followed by N
\* big-endian bytes, N in 1..8 the smallest count that holds the value (first
\* value byte nonzero); 0 -> 00, 127 -> 7F, 128 -> 81 80, 256 -> 82 01 00.
C16_BerEncoding ==
  WroteTyped("ber") =>
    LET v == call.arg.v
        N == Len(Written) - 1
    IN  /\ IF Below128(v) THEN Written = <<v[8]>>
           ELSE /\ N \in 1..8
                /\ Written[1] = 128 + N
                /\ Written[2] # 0
                /\ Rep(0, 8 - N) \o Slice(Written, 1, N) = v
        /\ v = U64(0) => Written = <<0>>
        /\ v = U64(127) => Written = <<127>>
        /\ v = U64(128) => Written = <<129, 128>>
        /\ v = U64(256) => Written = <<130, 1, 0>>

C16_Witness ==
  /\ WroteTyped("ber")
  /\ call.arg.v = U64(256)
  /\ Written = <<130, 1, 0>>

\* v <= 256^k.
LeqPow256(v, k) ==
  \/ k = 8
  \/ /\ \A i \in 1..(7 - k) : v[i] = 0
     /\ \/ v[8 - k] = 0
        \/ v[8 - k] = 1 /\ \A j \in (9 - k)..8 : v[j] = 0

\* v >= 256^k.
GeqPow256(v, k) == \E i \in 1..(8 - k) : v[i] # 0

\* ceil(log256(v)) and floor(log256(v)), for v > 0.
CeilLog256(v) == Min({k \in 0..8 : LeqPow256(v, k)})
FloorLog256(v) == 7 - Min({k \in 0..7 : GeqPow256(v, 7 - k)})

\* C17 as stated: for the BER format, length_of(Typed(v)) is 1 when v < 128
\* and 1 + ceil(log256(v)) when v >= 128, and that is the count of bytes the
\* BER write emits for v.
C17_BerLengthCeilLog ==
  WroteTyped("ber") =>
    LET v == call.arg.v
        n == IF Below128(v) THEN 1 ELSE 1 + CeilLog256(v)
    IN  /\ length_of_typed(kind, v, call.arg.hint) = n
        /\ Len(Written) = n

\* C17, amended: for the BER format, the length computed for v is 1 when
\* v < 128 and 2 + floor(log256(v)) when v >= 128 (the header byte and the
\* bytes of v), and that is the count of bytes the BER write emits for v,
\* exact powers of 256 included.
C17_BerLengthFloorLog ==
  /\ (kind = "ber" /\ value.tag = "Typed") =>
       length_of_typed(kind, value.v, value.hint) =
         IF Below128(value.v) THEN 1 ELSE 2 + FloorLog256(value.v)
  /\ WroteTyped("ber") =>
       Len(Written) = length_of_typed(kind, call.arg.v, call.arg.hint)

C17_Witness ==
  /\ WroteTyped("ber")
  /\ call.arg.v = U64(65536)
  /\ Len(Written) = 4
  /\ length_of(kind, m_fixed_length, call.arg) = 4

\* The value of a sequence of 7-bit groups, most significant first.
RECURSIVE OidValue(_)
OidValue(bytes) ==
  IF bytes = <<>> THEN Zero64
  ELSE ShiftIn7(OidValue(SubSeq(bytes, 1, Len(bytes) - 1)),
                bytes[Len(bytes)] % 128)

\* C18: the BER-OID format emits the value 7 bits per byte, most significant
\* group first, every byte but the last with its top bit set and the last
\* with it clear, the first byte never 0x80, in max(1, ceil(bits_needed / 7))
\* bytes, at most 10; 0 -> 00, 127 -> 7F, 128 -> 81 00, 16383 -> FF 7F,
\* 16384 -> 81 80 00.
C18_BerOidEncoding ==
  WroteTyped("ber_oid") =>
    LET v == call.arg.v
        n == Len(Written)
        bits == BitsNeeded(v)
    IN  /\ n \in 1..10
        /\ n = IF bits = 0 THEN 1 ELSE (bits + 6) \div 7
        /\ \A i \in 1..(n - 1) : Written[i] >= 128
        /\ Written[n] < 128
        /\ Written[1] # 128
        /\ OidValue(Written) = v
        /\ v = U64(0) => Written = <<0>>
        /\ v = U64(127) => Written = <<127>>
        /\ v = U64(128) => Written = <<129, 0>>
        /\ v = U64(16383) => Written = <<255, 127>>
        /\ v = U64(16384) => Written = <<129, 128, 0>>

\* The largest 64-bit value, emitted in 10 bytes.
C18_Witness ==
  /\ WroteTyped("ber_oid")
  /\ call.arg.v = Rep(255, 8)
  /\ Len(Written) = 10
  /\ Written[1] = 129

Minus1 == Rep(255, 8)
Minus128 == <<255, 255, 255, 255, 255, 255, 255, 128>>
Minus129 == <<255, 255, 255, 255, 255, 255, 255, 127>>

\* C19: the variable-length SInt format emits every signed 64-bit value
\* big-endian two's complement in the minimum number of bytes (1..8) that
\* keeps value and sign: the output never starts with a redundant 00 or FF
\* byte and length_of is that byte count; -1 -> FF, 127 -> 7F, 128 -> 00 80,
\* -128 -> 80, -129 -> FF 7F.
C19_SintMinLength ==
  /\ (kind = "sint" /\ m_fixed_length = 0 /\ value.tag = "Typed") =>
       LET n == length_of(kind, m_fixed_length, value)
       IN  /\ n \in 1..8
           /\ value.v = Minus1 => n = 1
           /\ value.v = U64(127) => n = 1
           /\ value.v = U64(128) => n = 2
           /\ value.v = Minus128 => n = 1
           /\ value.v = Minus129 => n = 2
  /\ (WroteTyped("sint") /\ m_fixed_length = 0) =>
       LET v == call.arg.v
           n == Len(Written)
       IN  /\ n = length_of(kind, m_fixed_length, call.arg)
           /\ n \in 1..8
           /\ Rep(IF Written[1] >= 128 THEN 255 ELSE 0, 8 - n) \o Written = v
           /\ n > 1 => /\ ~(Written[1] = 0 /\ Written[2] < 128)
                       /\ ~(Written[1] = 255 /\ Written[2] >= 128)
           /\ v = Minus1 => Written = <<255>>
           /\ v = U64(127) => Written = <<127>>
           /\ v = U64(128) => Written = <<0, 128>>
           /\ v = Minus128 => Written = <<128>>
           /\ v = Minus129 => Written = <<255, 127>>

C19_Witness ==
  /\ WroteTyped("sint")
  /\ m_fixed_length = 0
  /\ call.arg.v = U64(128)
  /\ Written = <<0, 128>>

\* C20: the UUID format always has fixed_length 16: read with a length other
\* than 0 or 16 fails with WrongLength and length_of of a Typed UUID is 16;
\* the BER and BER-OID formats always have fixed_length 0: read on them
\* never fails with WrongLength.
C20_FixedLengthConfiguration ==
  /\ kind = "uuid" =>
       /\ m_fixed_length = klv_uuid_length
       /\ (call.op = "read" /\ call.length \notin {0, klv_uuid_length}) =>
            call.err = "WrongLength"
       /\ value.tag = "Typed" =>
            length_of(kind, m_fixed_length, value) = klv_uuid_length
  /\ kind \in {"ber", "ber_oid"} =>
       /\ m_fixed_length = 0
       /\ call.op = "read" => call.err # "WrongLength"

\* The last call printed a Typed value under format k.
PrintedTyped(k) ==
  /\ call.op = "print"
  /\ kind = k
  /\ call.arg.tag = "Typed"

\* The length print takes for the value of the last call: its on-wire
\* length as the format knows it.
PrintLength ==
  IF m_fixed_length # 0 THEN m_fixed_length ELSE call.arg.v.length

\* C21 as stated: the float format prints a value of 4 bytes with 8
\* significant digits and a value of 8 bytes with 17.
C21_FloatDigits8And17 ==
  PrintedTyped("float") =>
    /\ PrintLength = 4 => call.ret.precision = 8
    /\ PrintLength = 8 => call.ret.precision = 17

\* C21, amended: the float format prints a value of 4 bytes with 7
\* significant digits (FLT_DIG + 1) and a value of 8 bytes with 16
\* (DBL_DIG + 1).
C21_FloatDigits7And16 ==
  PrintedTyped("float") =>
    /\ call.ret.typed
    /\ PrintLength = 4 => call.ret.precision = 7
    /\ PrintLength = 8 => call.ret.precision = 16

C21_Witness ==
  /\ PrintedTyped("float")
  /\ m_fixed_length = 0
  /\ call.arg.v.length = 4
  /\ call.ret.precision = 7

\* ceil(bits * log10(2)) for bits = 8 L and for bits = 8 L - 1, L = 1..8:
\* the least d with 10^d >= 2^bits.
DigitsOfBytes == <<3, 5, 8, 10, 13, 15, 17, 20>>
DigitsOfBytesLessOneBit == <<3, 5, 7, 10, 12, 15, 17, 19>>

\* C22: the mapped formats print a value of on-wire length L, L in 1..8,
\* with ceil(bits * log10(2)) significant digits, bits = 8 L for UFLINT and
\* SFLINT and bits = 8 L - 1 for IMAP.
C22_MappedDigits ==
  /\ (PrintedTyped("uflint") \/ PrintedTyped("sflint")) =>
       (PrintLength \in 1..8 =>
          call.ret.precision = DigitsOfBytes[PrintLength])
  /\ PrintedTyped("imap") =>
       (PrintLength \in 1..8 =>
          call.ret.precision = DigitsOfBytesLessOneBit[PrintLength])

\* An IMAP value of 3 bytes: 23 bits, 7 digits (24 bits would print 8).
C22_Witness ==
  /\ PrintedTyped("imap")
  /\ m_fixed_length = 0
  /\ call.arg.v.length = 3
  /\ call.ret.precision = 7

\* The digits a format prints for a value of length L, 0: not known.
DigitsFor(k, L) ==
  IF L = 0 THEN DBL_DIG + 1
  ELSE CASE k = "float" -> IF L = 4 THEN FLT_DIG + 1 ELSE DBL_DIG + 1
         [] k = "imap" -> DigitsOfBytesLessOneBit[L]
         [] OTHER -> DigitsOfBytes[L]

\* C23: for the Float, UFLINT, SFLINT and IMAP formats the length that
\* drives the precision is the format's fixed_length when that is nonzero,
\* otherwise the length the value carries; when both are zero the value is
\* printed with DBL_DIG + 1 digits.
C23_PrecisionLength ==
  (call.op = "print" /\ call.arg.tag = "Typed" /\ kind \in LengthyKinds) =>
    /\ (m_fixed_length \in 1..8) =>
         call.ret.precision = DigitsFor(kind, m_fixed_length)
    /\ (m_fixed_length = 0 /\ call.arg.v.length \in 1..8) =>
         call.ret.precision = DigitsFor(kind, call.arg.v.length)
    /\ (m_fixed_length = 0 /\ call.arg.v.length = 0) =>
         call.ret.precision = DBL_DIG + 1

\* A value of 4 bytes printed under a fixed length of 2.
C23_Witness ==
  /\ PrintedTyped("uflint")
  /\ m_fixed_length = 2
  /\ call.arg.v.length = 4
  /\ call.ret.precision = 5

\* C24: under a variable-length Float, UFLINT, SFLINT or IMAP format the
\* length of a Typed value is the length supplied with the value, and when
\* that is zero length_of fails with an error (so that write fails before
\* it writes).
C24_ZeroLengthRefused ==
  (/\ call.op = "length_of"
   /\ kind \in LengthyKinds
   /\ m_fixed_length = 0
   /\ call.arg.tag = "Typed") =>
    IF call.arg.v.length # 0
      THEN call.err = "none" /\ call.length = call.arg.v.length
      ELSE call.err # "none"

\* --- claims about track (SpecTrack)

\* The states in the history of track t.
Entries(h) == {h[i] : i \in 1..Len(h)}

TrackOp(op) == call.op = op

\* C25: after any sequence of append(state), append(track&), insert, remove
\* and clear on tracks that start empty, the frame numbers of every history
\* are strictly increasing, and first_frame() / last_frame() give the frame
\* of the first / last entry, the least / greatest frame of the history (0
\* for an empty history).
C25_FramesStrictlyIncreasing ==
  \A t \in Tracks :
    LET h == history_[t]
    IN  /\ \A i, j \in 1..Len(h) : i < j => frame[h[i]] < frame[h[j]]
        /\ h = <<>> => first_frame(frame, h) = 0 /\ last_frame(frame, h) = 0
        /\ h # <<>> =>
             /\ first_frame(frame, h) = frame[h[1]]
             /\ last_frame(frame, h) = frame[h[Len(h)]]
             /\ \A s \in Entries(h) :
                  first_frame(frame, h) <= frame[s]
                  /\ frame[s] <= last_frame(frame, h)

\* An insert put a state in front of a history of two entries or more.
C25_Witness ==
  /\ TrackOp("insert")
  /\ call.ret
  /\ Len(history_[call.self]) >= 2
  /\ history_[call.self][1] = call.state

\* C26: a state's back-pointer is track T exactly when the state is in T's
\* history, so no state is in two tracks (nor twice in one); append(state)
\* and insert(state) throw logic_error and change nothing when the state has
\* a live parent; remove and clear reset the back-pointer of every entry
\* they take out.
C26_BackPointers ==
  /\ \A s \in States, t \in Tracks :
       track_[s] = t <=> s \in Entries(history_[t])
  /\ \A s \in States : \A t, u \in Tracks :
       s \in Entries(history_[t]) /\ s \in Entries(history_[u]) => t = u
  /\ \A t \in Tracks : \A i, j \in 1..Len(history_[t]) :
       history_[t][i] = history_[t][j] => i = j
  /\ (TrackOp("append") \/ TrackOp("insert")) =>
       (call.state # 0 /\ call.pre_track[call.state] # "none" =>
          /\ call.err = "logic_error"
          /\ history_ = call.pre_history
          /\ track_ = call.pre_track)
  /\ (TrackOp("remove") \/ TrackOp("clear")) =>
       \A s \in Entries(call.pre_history[call.self]) :
         s \notin Entries(history_[call.self]) => track_[s] = "none"

\* An insert of a state that is in the history of the other track threw.
C26_Witness ==
  /\ TrackOp("insert")
  /\ call.err = "logic_error"
  /\ call.pre_track[call.state] # call.self

\* C27: append(track& other) returns false and changes nothing when both
\* histories are non-empty and last_frame() >= other.first_frame(); else it
\* returns true, this history is its previous entries followed by other's
\* previous entries in order, every moved state has this track as parent,
\* and other's history is empty.
C27_AppendTrack ==
  TrackOp("append_track") =>
    LET mine == call.pre_history[call.self]
        theirs == call.pre_history[call.other]
    IN  IF /\ mine # <<>>
           /\ theirs # <<>>
           /\ frame[mine[Len(mine)]] >= frame[theirs[1]]
          THEN /\ call.ret = FALSE
               /\ history_ = call.pre_history
               /\ track_ = call.pre_track
          ELSE /\ call.ret = TRUE
               /\ call.self # call.other => history_[call.self] = mine \o theirs
               /\ history_[call.other] = <<>>
               /\ \A s \in Entries(theirs) : track_[s] = call.self
               /\ \A s \in States \ Entries(theirs) :
                    track_[s] = call.pre_track[s]
               /\ \A t \in Tracks \ {call.self, call.other} :
                    history_[t] = call.pre_history[t]

\* A track of some entries took over the entries of another track.
C27_Witness ==
  /\ TrackOp("append_track")
  /\ call.ret
  /\ call.pre_history[call.self] # <<>>
  /\ call.pre_history[call.other] # <<>>

\* The entries of history h whose frame is that of state s.
SameFrame(h, s) == {i \in 1..Len(h) : frame[h[i]] = frame[s]}

\* C28: remove(state) selects by frame number alone: it returns true exactly
\* when the history has an entry of the state's frame; that entry is erased
\* and its back-pointer reset, even when it is another object than the one
\* passed; the other entries and their order are unchanged; a null state or
\* no entry of that frame gives false and changes nothing.
C28_RemoveByFrame ==
  TrackOp("remove") =>
    LET mine == call.pre_history[call.self]
    IN  IF call.state = 0 \/ SameFrame(mine, call.state) = {}
          THEN /\ call.ret = FALSE
               /\ history_ = call.pre_history
               /\ track_ = call.pre_track
          ELSE /\ call.ret = TRUE
               /\ \E i \in SameFrame(mine, call.state) :
                    /\ history_[call.self]
                         = SubSeq(mine, 1, i - 1)
                             \o SubSeq(mine, i + 1, Len(mine))
                    /\ track_ = [call.pre_track EXCEPT ![mine[i]] = "none"]
               /\ \A t \in Tracks \ {call.self} :
                    history_[t] = call.pre_history[t]

\* A remove took out an entry that is another object than the state passed.
C28_Witness ==
  /\ TrackOp("remove")
  /\ call.ret
  /\ call.state \notin Entries(call.pre_history[call.self])

============================================================================
